---- MODULE Spec2Model ----
(***************************************************************************)
(* State-machine model of the HTTP/2 connection engine of libmicrohttpd    *)
(* (src/microhttpd/http2/h2_connection.c): the read, idle and write phases *)
(* of a multiplexed connection, response queueing, teardown and the        *)
(* preface test.  The socket, the nghttp2 session and the memory pool are  *)
(* collaborators: every value they return is an input chosen with \E.      *)
(***************************************************************************)
EXTENDS Integers, Sequences, FiniteSets

VARIABLES
  state,                    \* connection->state
  suspended,                \* connection->suspended
  tls_state,                \* connection->tls_state
  read_buffer,              \* connection->read_buffer: the bytes, as far as inspected
  read_buffer_size,         \* connection->read_buffer_size
  read_buffer_offset,       \* connection->read_buffer_offset ("filled")
  read_buffer_start_offset, \* connection->read_buffer_start_offset ("start")
  write_buffer,             \* connection->write_buffer: its bytes
  write_buffer_size,        \* connection->write_buffer_size
  write_buffer_append_offset,
  write_buffer_send_offset,
  read_closed,              \* connection->read_closed
  event_loop_info,          \* connection->event_loop_info (readiness interest)
  h2,                       \* connection->h2: NULL or the session
  pool,                     \* connection->pool: NULL or the arena
  released,                 \* how often a session and an arena were destroyed
  accepted_max,             \* h2->accepted_max
  current_stream_id,        \* h2->current_stream_id
  streams,                  \* the session's stream user data, by stream id
  response,                 \* the response: total_size and reference count
  termination_code,         \* reason handed to MHD_connection_close_
  close_msg,                \* message handed to connection_close_error
  goaway_id,                \* last_stream_id of the last nghttp2_submit_goaway
  sent,                     \* the bytes the socket accepted, in order
  encoded,                  \* number of bytes the session encoded so far
  phase,                    \* the operation that ran last
  inp,                      \* what the collaborators returned to it
  calls,                    \* the collaborator calls it made, in order
  ret                       \* its return value

conn == <<state, suspended, tls_state, read_buffer, read_buffer_size, read_buffer_offset,
          read_buffer_start_offset, write_buffer, write_buffer_size,
          write_buffer_append_offset, write_buffer_send_offset, read_closed,
          event_loop_info, h2, pool, released>>
sess == <<accepted_max, current_stream_id, streams, response>>
obs == <<termination_code, close_msg, goaway_id, sent, encoded>>
vars == <<conn, sess, obs, phase, inp, calls, ret>>

----------------------------------------------------------------------------
(* Bounds of the model *)

MaxReadBuf == 2
WriteBufSize == 3
MaxEncoded == 4
MaxStreamId == 3
MaxPrefaceLen == 26
MaxTotalSize == 2
MaxRefCount == 3

(* Program constants *)

H2_MAGIC_TOKEN_LEN_MIN == 16
H2_MAGIC_TOKEN_LEN == 24
\* "PRI * HTTP/2.0\r\n\r\nSM\r\n\r\n"
H2_MAGIC_TOKEN ==
  <<80, 82, 73, 32, 42, 32, 72, 84, 84, 80, 47, 50, 46, 48, 13, 10,
    13, 10, 83, 77, 13, 10, 13, 10>>

pool_increment == 1
MHD_ERR_AGAIN_ == -3073
MHD_ERR_CONNRESET_ == -3074
MHD_ERR_NOTCONN_ == -3075
NGHTTP2_ERR_BAD_CLIENT_MAGIC == -903
NGHTTP2_ERR_PROTO == -505
MHD_TLS_CONN_NO_TLS == 0
MHD_TLS_CONN_CONNECTED == 3
MHD_HTTP_OK == 200
MHD_HTTP_NO_CONTENT == 204
MHD_HTTP_NOT_MODIFIED == 304

NULL == "NULL"
SESSION == "SESSION"
POOL == "POOL"
MHD_CONNECTION_INIT == "MHD_CONNECTION_INIT"
MHD_CONNECTION_CLOSED == "MHD_CONNECTION_CLOSED"
MHD_EVENT_LOOP_INFO_READ == "MHD_EVENT_LOOP_INFO_READ"
MHD_EVENT_LOOP_INFO_WRITE == "MHD_EVENT_LOOP_INFO_WRITE"
MHD_REQUEST_TERMINATED_COMPLETED_OK == "MHD_REQUEST_TERMINATED_COMPLETED_OK"
MHD_REQUEST_TERMINATED_WITH_ERROR == "MHD_REQUEST_TERMINATED_WITH_ERROR"
MHD_REQUEST_TERMINATED_CLIENT_ABORT == "MHD_REQUEST_TERMINATED_CLIENT_ABORT"
MHD_YES == "MHD_YES"
MHD_NO == "MHD_NO"
VOID == "void"

Min(a, b) == IF a < b THEN a ELSE b

\* What the collaborators returned when none was asked.
NoInput == [io |-> 0, rv |-> 0, fill |-> 0, rc |-> 0, status |-> 0, grow |-> 0,
            want_read |-> FALSE, want_write |-> FALSE]

CalledIn(cs, f) == \E i \in 1..Len(cs) : cs[i] = f
Called(f) == CalledIn(calls, f)

----------------------------------------------------------------------------
(* The collaborators' answers *)

\* connection->recv_cls: a count 0..len or a negative sentinel.
RecvResults(len) ==
  (0..len) \cup {MHD_ERR_AGAIN_, MHD_ERR_CONNRESET_, MHD_ERR_NOTCONN_}

\* connection->send_cls: a count 0..len or a negative sentinel.
SendResults(len) == (0..len) \cup {MHD_ERR_AGAIN_, MHD_ERR_NOTCONN_}

\* nghttp2_session_mem_recv: the bytes consumed, 0..inlen, or an error code.
MemRecvResults(inlen) ==
  (0..inlen) \cup {NGHTTP2_ERR_BAD_CLIENT_MAGIC, NGHTTP2_ERR_PROTO}

\* try_grow_read_buffer: the capacity afterwards; the pool may refuse.
TryGrowResults(size) ==
  {size} \cup {s \in {size + pool_increment} : s <= MaxReadBuf}

\* The session's receive callbacks: accepted_max after decoding inlen bytes.
AcceptedAfter(inlen) ==
  {accepted_max} \cup
  {s \in {IF accepted_max = 0 THEN 1 ELSE accepted_max + 2} :
     inlen > 0 /\ s <= MaxStreamId}

\* h2_fill_write_buffer: how many bytes the session may encode at append.
FillCounts(append) ==
  0..Min(write_buffer_size - append, MaxEncoded - encoded)

\* The buffer after the session encoded n fresh bytes at offset append.
Encode(buf, append, n) ==
  [i \in 1..Len(buf) |->
     IF i > append /\ i <= append + n THEN encoded + (i - append) ELSE buf[i]]

----------------------------------------------------------------------------
(* h2_connection_close, reached through MHD_connection_close_ *)

\* h2_session_destroy and MHD_pool_destroy destroy what they are given,
\* if anything: the count of destructions afterwards.
Destroyed(pointer, n) == IF pointer # NULL THEN n + 1 ELSE n

\* A bug: the session reference is left dangling.
ClearedSession_Kept(s) == s

\* connection->h2 after the teardown.
ClearedSession(s) == NULL

h2_connection_close ==
  /\ released' = [session |-> Destroyed(h2, released.session),
                  pool |-> Destroyed(pool, released.pool)]
  /\ h2' = ClearedSession(h2)
  /\ state' = MHD_CONNECTION_CLOSED
  /\ pool' = NULL
  /\ read_buffer' = <<>>
  /\ read_buffer_size' = 0
  /\ write_buffer' = <<>>
  /\ write_buffer_size' = 0

\* MHD_connection_close_ (connection, reason).
MHD_connection_close_(reason) ==
  /\ termination_code' = reason
  /\ h2_connection_close

\* connection_close_error (connection, msg).
connection_close_error(msg) ==
  /\ close_msg' = msg
  /\ MHD_connection_close_(MHD_REQUEST_TERMINATED_WITH_ERROR)

\* A bug: the wrong sentinel is taken for would-block.
WouldBlock_Reset(r) == r = MHD_ERR_CONNRESET_

\* The test both phases make for the would-block sentinel.
WouldBlock(r) == r = MHD_ERR_AGAIN_

\* A phase reports what it did.
Did(p, i, c, r) ==
  /\ phase' = p
  /\ inp' = i
  /\ calls' = c
  /\ ret' = r

----------------------------------------------------------------------------
(* h2_connection_handle_read *)

\* The grow test of the read phase: less than one increment of free space.
NeedsGrow(offset, size) == offset + pool_increment > size

\* A bug: the whole capacity is offered, not the free space.
RecvLen_Whole(size, offset) == size

\* The length offered to recv_cls.
RecvLen(size, offset) == size - offset

\* A bug: the filled cursor does not move.
ReadAdvance_Stuck(offset, n) == offset

\* A positive read of n bytes moves the filled cursor.
ReadAdvance(offset, n) == offset + n

\* A bug: a closed connection is read like an open one.
ReadSkips_SuspendedOnly(st, susp) == susp

\* The read phase does nothing on a closed or suspended connection.
ReadSkips(st, susp) == st = MHD_CONNECTION_CLOSED \/ susp

\* The read phase's assertion: a TLS connection has completed its handshake.
ReadAssertion(tls) ==
  tls # MHD_TLS_CONN_NO_TLS => MHD_TLS_CONN_CONNECTED <= tls

h2_connection_handle_read ==
  IF ReadSkips(state, suspended)
  THEN /\ Did("read", NoInput, <<>>, VOID)
       /\ UNCHANGED <<conn, sess, obs>>
  ELSE IF ~ReadAssertion(tls_state)
  THEN /\ Did("read", NoInput, <<"abort">>, VOID)
       /\ UNCHANGED <<conn, sess, obs>>
  ELSE
    \E size \in (IF NeedsGrow(read_buffer_offset, read_buffer_size)
                 THEN TryGrowResults(read_buffer_size)
                 ELSE {read_buffer_size}) :
      LET grow == IF NeedsGrow(read_buffer_offset, read_buffer_size)
                  THEN <<"try_grow_read_buffer">> ELSE <<>>
      IN
      IF size = read_buffer_offset \/ h2 = NULL
      THEN /\ read_buffer_size' = size
           /\ Did("read", [NoInput EXCEPT !.grow = size - read_buffer_size],
                  grow, VOID)
           /\ UNCHANGED <<state, suspended, tls_state, read_buffer, read_buffer_offset,
                          read_buffer_start_offset, write_buffer,
                          write_buffer_size, write_buffer_append_offset,
                          write_buffer_send_offset, read_closed,
                          event_loop_info, h2, pool, released, sess, obs>>
      ELSE
        \E bytes_read \in RecvResults(RecvLen(size, read_buffer_offset)) :
          LET i == [NoInput EXCEPT !.io = bytes_read,
                                   !.grow = size - read_buffer_size]
              c == grow \o <<"recv_cls">>
          IN
          /\ UNCHANGED <<suspended, tls_state, read_buffer_start_offset,
                         write_buffer_append_offset, write_buffer_send_offset,
                         sess, goaway_id, sent, encoded>>
          /\ IF WouldBlock(bytes_read)
             THEN /\ read_buffer_size' = size
                  /\ Did("read", i, c, VOID)
                  /\ UNCHANGED <<state, read_buffer, read_buffer_offset,
                                 write_buffer, write_buffer_size, read_closed,
                                 event_loop_info, h2, pool, released, termination_code,
                                 close_msg>>
             ELSE IF bytes_read = MHD_ERR_CONNRESET_
             THEN /\ connection_close_error("unexpectedly disconnected")
                  /\ Did("read", i, c \o <<"connection_close_error">>, VOID)
                  /\ UNCHANGED <<read_buffer_offset, read_closed,
                                 event_loop_info>>
             ELSE IF bytes_read < 0
             THEN /\ connection_close_error("closed due to error")
                  /\ Did("read", i, c \o <<"connection_close_error">>, VOID)
                  /\ UNCHANGED <<read_buffer_offset, read_closed,
                                 event_loop_info>>
             ELSE IF bytes_read = 0
             THEN /\ read_closed' = TRUE
                  /\ MHD_connection_close_(MHD_REQUEST_TERMINATED_CLIENT_ABORT)
                  /\ Did("read", i, c \o <<"MHD_connection_close_">>, VOID)
                  /\ UNCHANGED <<read_buffer_offset, event_loop_info,
                                 close_msg>>
             ELSE /\ read_buffer_size' = size
                  /\ read_buffer_offset' =
                       ReadAdvance(read_buffer_offset, bytes_read)
                  /\ Did("read", i, c \o <<"MHD_update_last_activity_">>, VOID)
                  /\ UNCHANGED <<state, read_buffer, write_buffer,
                                 write_buffer_size, read_closed,
                                 event_loop_info, h2, pool, released, termination_code,
                                 close_msg>>

----------------------------------------------------------------------------
(* h2_connection_handle_write *)

\* Bytes of the write buffer not yet handed to the socket.
Pending(append, send) == append - send

\* A bug: the send cursor does not move.
WriteAdvance_Stuck(send, r) == send

\* A write of r bytes moves the send cursor.
WriteAdvance(send, r) == send + r

\* A bug: the write buffer is not required to be flushed.
NaturallyFinished_Unflushed(want_read, want_write, append, send) ==
  (~want_read) /\ (~want_write)

\* The write phase's test for a connection that has naturally finished.
NaturallyFinished(want_read, want_write, append, send) ==
  (~want_read) /\ (~want_write) /\ (append - send = 0)

\* The readiness interest the write phase leaves when it does not close.
WriteInterest(append, send) == MHD_EVENT_LOOP_INFO_READ

h2_connection_handle_write ==
  IF h2 = NULL
  THEN /\ Did("write", NoInput, <<>>, VOID)
       /\ UNCHANGED <<conn, sess, obs>>
  ELSE
    LET pending == Pending(write_buffer_append_offset, write_buffer_send_offset)
    IN
    \E io \in (IF pending > 0 THEN SendResults(pending) ELSE {0}) :
      LET c1 == IF pending > 0 THEN <<"send_cls">> ELSE <<>>
          i1 == [NoInput EXCEPT !.io = io]
      IN
      /\ UNCHANGED <<suspended, tls_state, read_buffer_offset, read_buffer_start_offset,
                     read_closed, sess, close_msg, goaway_id>>
      /\ IF pending > 0 /\ WouldBlock(io)
         THEN /\ Did("write", i1, c1, VOID)
              /\ UNCHANGED <<state, read_buffer, read_buffer_size,
                             write_buffer, write_buffer_size,
                             write_buffer_append_offset,
                             write_buffer_send_offset, event_loop_info, h2,
                             pool, released, termination_code, sent, encoded>>
         ELSE IF pending > 0 /\ io < 0
         THEN /\ MHD_connection_close_(MHD_REQUEST_TERMINATED_WITH_ERROR)
              /\ Did("write", i1, c1 \o <<"MHD_connection_close_">>, VOID)
              /\ UNCHANGED <<write_buffer_append_offset,
                             write_buffer_send_offset, event_loop_info, sent,
                             encoded>>
         ELSE
           LET send1 == IF pending > 0
                        THEN WriteAdvance(write_buffer_send_offset, io)
                        ELSE write_buffer_send_offset
               drained == pending > 0
                          /\ write_buffer_append_offset - send1 = 0
               append2 == IF drained THEN 0 ELSE write_buffer_append_offset
               send2 == IF drained THEN 0 ELSE send1
               sent1 == sent \o SubSeq(write_buffer,
                                       write_buffer_send_offset + 1,
                                       write_buffer_send_offset + io)
           IN
           \E n \in FillCounts(append2), rc \in {0, -1} :
             LET append3 == append2 + n
                 buf3 == Encode(write_buffer, append2, n)
                 c2 == c1 \o <<"h2_fill_write_buffer">>
                 i2 == [i1 EXCEPT !.fill = n, !.rc = rc]
             IN
             /\ write_buffer_append_offset' = append3
             /\ write_buffer_send_offset' = send2
             /\ sent' = sent1
             /\ encoded' = encoded + n
             /\ IF rc # 0
                THEN /\ MHD_connection_close_(MHD_REQUEST_TERMINATED_WITH_ERROR)
                     /\ Did("write", i2, c2 \o <<"MHD_connection_close_">>, VOID)
                     /\ UNCHANGED event_loop_info
                ELSE
                  \E wr \in BOOLEAN, ww \in BOOLEAN :
                    LET c3 == c2
                        i3 == [i2 EXCEPT !.want_read = wr, !.want_write = ww]
                    IN
                    IF NaturallyFinished(wr, ww, append3, send2)
                    THEN /\ MHD_connection_close_(
                              MHD_REQUEST_TERMINATED_COMPLETED_OK)
                         /\ Did("write", i3,
                                c3 \o <<"MHD_connection_close_">>, VOID)
                         /\ UNCHANGED event_loop_info
                    ELSE /\ write_buffer' = buf3
                         /\ event_loop_info' = WriteInterest(append3, send2)
                         /\ Did("write", i3,
                                c3 \o <<"MHD_update_last_activity_",
                                        "MHD_connection_epoll_update_">>, VOID)
                         /\ UNCHANGED <<state, read_buffer, read_buffer_size,
                                        write_buffer_size, h2, pool, released,
                                        termination_code>>

----------------------------------------------------------------------------
(* h2_connection_handle_idle *)

\* The bytes handed to the decoder.
Available(offset, start) == offset - start

\* The decoder consumed rv bytes: the start cursor moves.
IdleAdvance(start, rv) == start + rv

\* A bug: the shutdown frame names the value read before decoding.
GoawayLastStreamId_Stale(max_before, max_now) == max_before

\* The stream id the shutdown frame names.
GoawayLastStreamId(max_before, max_now) == max_now

\* A bug: a successful decode leaves the readiness interest as it was.
IdleInterest_Kept(info) == info

\* The readiness interest a successful decode leaves.
IdleInterest(info) == MHD_EVENT_LOOP_INFO_WRITE

h2_connection_handle_idle ==
  IF state = MHD_CONNECTION_CLOSED \/ h2 = NULL
  THEN /\ Did("idle", NoInput, <<"cleanup_connection">>, MHD_NO)
       /\ UNCHANGED <<conn, sess, obs>>
  ELSE
    LET bytes_read == Available(read_buffer_offset, read_buffer_start_offset)
    IN
    \E rv \in MemRecvResults(bytes_read), am \in AcceptedAfter(bytes_read),
       flush \in {0, -1} :
      LET i == [NoInput EXCEPT !.rv = rv,
                               !.rc = IF rv < 0 THEN flush ELSE 0]
          c == <<"nghttp2_session_mem_recv">>
      IN
      /\ accepted_max' = am
      /\ UNCHANGED <<suspended, tls_state, write_buffer_append_offset,
                     write_buffer_send_offset, read_closed, current_stream_id,
                     streams, response, close_msg, sent, encoded>>
      /\ IF rv < 0
         THEN /\ goaway_id' = GoawayLastStreamId(accepted_max, am)
              /\ MHD_connection_close_(MHD_REQUEST_TERMINATED_WITH_ERROR)
              /\ Did("idle", i,
                     c \o <<"nghttp2_submit_goaway", "nghttp2_session_send",
                            "MHD_connection_close_">>, MHD_NO)
              /\ UNCHANGED <<read_buffer_offset, read_buffer_start_offset,
                             event_loop_info>>
         ELSE
           LET start1 == IdleAdvance(read_buffer_start_offset, rv)
               drained == read_buffer_offset = start1
           IN
           /\ read_buffer_start_offset' = IF drained THEN 0 ELSE start1
           /\ read_buffer_offset' = IF drained THEN 0 ELSE read_buffer_offset
           /\ event_loop_info' =
                IF write_buffer_append_offset - write_buffer_send_offset # 0
                THEN MHD_EVENT_LOOP_INFO_WRITE
                ELSE IdleInterest(event_loop_info)
           /\ Did("idle", i,
                  c \o <<"MHD_update_last_activity_",
                         "MHD_connection_epoll_update_">>
                    \o (IF write_buffer_append_offset
                           - write_buffer_send_offset # 0
                        THEN <<"MHD_connection_epoll_update_">> ELSE <<>>),
                  MHD_YES)
           /\ UNCHANGED <<state, read_buffer, read_buffer_size, write_buffer,
                          write_buffer_size, h2, pool, released, termination_code,
                          goaway_id>>

----------------------------------------------------------------------------
(* The application suspends or resumes the connection *)

MHD_suspend_resume ==
  /\ state # MHD_CONNECTION_CLOSED
  /\ suspended' = ~suspended
  /\ Did("suspend", NoInput, <<>>, VOID)
  /\ UNCHANGED <<state, tls_state, read_buffer, read_buffer_size, read_buffer_offset,
                 read_buffer_start_offset, write_buffer, write_buffer_size,
                 write_buffer_append_offset, write_buffer_send_offset,
                 read_closed, event_loop_info, h2, pool, released, sess, obs>>

----------------------------------------------------------------------------
(* A connection on which multiplexed mode was just selected *)

\* What every connection starts with.
InitCommon ==
  /\ state = MHD_CONNECTION_INIT
  /\ suspended = FALSE
  /\ tls_state \in {MHD_TLS_CONN_NO_TLS, MHD_TLS_CONN_CONNECTED}
  /\ read_buffer_start_offset = 0
  /\ write_buffer_append_offset = 0
  /\ write_buffer_send_offset = 0
  /\ read_closed = FALSE
  /\ pool = POOL
  /\ released = [session |-> 0, pool |-> 0]
  /\ termination_code = "NONE"
  /\ close_msg = "NONE"
  /\ goaway_id = -1
  /\ sent = <<>>
  /\ encoded = 0
  /\ phase = "init"
  /\ inp = NoInput
  /\ calls = <<>>
  /\ ret = VOID

\* After h2_set_h2_callbacks: the session exists, write interest is set.
InitConn ==
  /\ InitCommon
  /\ h2 = SESSION
  /\ event_loop_info = MHD_EVENT_LOOP_INFO_WRITE
  /\ write_buffer_size = WriteBufSize
  /\ write_buffer = [i \in 1..WriteBufSize |-> 0]

NoStreams == [id \in {} |-> NULL]

Init ==
  /\ InitConn
  /\ read_buffer = <<>>
  /\ read_buffer_size \in 0..MaxReadBuf
  /\ read_buffer_offset \in 0..read_buffer_size
  /\ accepted_max = 0
  /\ current_stream_id = 0
  /\ streams = NoStreams
  /\ response = [total_size |-> 0, reference_count |-> 1]

Next ==
  \/ h2_connection_handle_read
  \/ h2_connection_handle_idle
  \/ h2_connection_handle_write
  \/ MHD_suspend_resume

Spec == Init /\ [][Next]_vars

----------------------------------------------------------------------------
(* The connection's owner tears it down, whatever its state *)

\* A bug: the arena is released while the session still lives in it.
CloseSteps_ArenaFirst ==
  <<"state = MHD_CONNECTION_CLOSED", "MHD_pool_destroy", "pool = NULL",
    "h2_session_destroy", "h2 = NULL",
    "read_buffer = NULL", "read_buffer_size = 0",
    "write_buffer = NULL", "write_buffer_size = 0">>

\* The statements of h2_connection_close, in the order it runs them.
CloseSteps ==
  <<"h2_session_destroy", "h2 = NULL",
    "state = MHD_CONNECTION_CLOSED", "MHD_pool_destroy", "pool = NULL",
    "read_buffer = NULL", "read_buffer_size = 0",
    "write_buffer = NULL", "write_buffer_size = 0">>

h2_connection_close_call ==
  /\ h2_connection_close
  /\ Did("close", NoInput, CloseSteps, VOID)
  /\ UNCHANGED <<suspended, tls_state, read_buffer_offset,
                 read_buffer_start_offset, write_buffer_append_offset,
                 write_buffer_send_offset, read_closed, event_loop_info,
                 sess, obs>>

NextClose ==
  \/ h2_connection_handle_read
  \/ h2_connection_handle_idle
  \/ h2_connection_handle_write
  \/ h2_connection_close_call

SpecClose == Init /\ [][NextClose]_vars

----------------------------------------------------------------------------
(* The scheduler drives a connection on which nothing fails: the read and
   write phases run when the reported interest asks for them, the idle
   phase keeps running, the socket takes bytes and the session runs dry
   once it has encoded MaxEncoded bytes. *)

\* No phase of such a run meets an error.
NoFailure ==
  /\ state' = MHD_CONNECTION_CLOSED
       => termination_code' = MHD_REQUEST_TERMINATED_COMPLETED_OK
  /\ encoded' = MaxEncoded => (~inp'.want_read /\ ~inp'.want_write)

LiveRead ==
  /\ state # MHD_CONNECTION_CLOSED
  /\ event_loop_info = MHD_EVENT_LOOP_INFO_READ
  /\ h2_connection_handle_read
  /\ NoFailure

LiveIdle ==
  /\ h2_connection_handle_idle
  /\ NoFailure

LiveWrite ==
  /\ state # MHD_CONNECTION_CLOSED
  /\ event_loop_info = MHD_EVENT_LOOP_INFO_WRITE
  /\ h2_connection_handle_write
  /\ NoFailure

\* A write phase in which the socket takes bytes, the session encodes
\* some, or the connection finishes.
WriteProgress ==
  /\ LiveWrite
  /\ \/ Len(sent') > Len(sent)
     \/ encoded' > encoded
     \/ state' = MHD_CONNECTION_CLOSED

NextLive == LiveRead \/ LiveIdle \/ LiveWrite

SpecLive ==
  Init /\ [][NextLive]_vars /\ WF_vars(LiveIdle) /\ SF_vars(WriteProgress)

----------------------------------------------------------------------------
(* h2_queue_response *)

\* Request methods, as character codes.  stream->method is a pointer:
\* NoMethod is the null pointer, <<m>> points to the string m.
NoMethod == <<>>
M_HEAD == <<72, 69, 65, 68>>
M_head == <<104, 101, 97, 100>>
M_HeAd == <<72, 101, 65, 100>>
M_GET == <<71, 69, 84>>
M_HEA == <<72, 69, 65>>
M_HEADS == <<72, 69, 65, 68, 83>>
Methods == {NoMethod, <<M_HEAD>>, <<M_head>>, <<M_HeAd>>, <<M_GET>>,
            <<M_HEA>>, <<M_HEADS>>}
MHD_HTTP_METHOD_HEAD == M_HEAD

StatusCodes == {100, 199, 200, 204, 304, 404}
StreamIds == {s \in 1..MaxStreamId : s % 2 = 1}

\* toasciilower
ToLower(c) == IF c >= 65 /\ c <= 90 THEN c + 32 ELSE c

\* MHD_str_equal_caseless_: both strings end together and agree up to case.
MHD_str_equal_caseless_(a, b) ==
  /\ Len(a) = Len(b)
  /\ \A i \in 1..Len(a) : ToLower(a[i]) = ToLower(b[i])

\* nghttp2_session_get_stream_user_data: the stream or NULL.
StreamFound(id) == id \in DOMAIN streams

\* A bug: the method is compared case-sensitively.
NoBodyShortcut_CaseSensitive(method, status_code) ==
  \/ (method # NoMethod /\ method[1] = MHD_HTTP_METHOD_HEAD)
  \/ MHD_HTTP_OK > status_code
  \/ MHD_HTTP_NO_CONTENT = status_code
  \/ MHD_HTTP_NOT_MODIFIED = status_code

\* The test for a response whose body is never sent.
NoBodyShortcut(method, status_code) ==
  \/ (method # NoMethod
      /\ MHD_str_equal_caseless_(method[1], MHD_HTTP_METHOD_HEAD))
  \/ MHD_HTTP_OK > status_code
  \/ MHD_HTTP_NO_CONTENT = status_code
  \/ MHD_HTTP_NOT_MODIFIED = status_code

\* A bug: the reference is taken before the stream is looked up.
RcAfterLookup_Always(found, rc) == rc + 1

\* The reference count after the lookup of the stream: only a stream that
\* was found takes a reference.
RcAfterLookup(found, rc) == IF found THEN rc + 1 ELSE rc

h2_queue_response ==
  /\ h2 # NULL
  /\ response.reference_count < MaxRefCount
  /\ \E status_code \in StatusCodes :
       LET id == current_stream_id
           found == StreamFound(id)
           i == [NoInput EXCEPT !.status = status_code]
           c == <<"nghttp2_session_get_stream_user_data">>
       IN
       /\ response' = [response EXCEPT !.reference_count =
                                          RcAfterLookup(found, @)]
       /\ UNCHANGED <<state, suspended, tls_state, read_buffer, read_buffer_size,
                      read_buffer_offset, read_buffer_start_offset,
                      write_buffer, write_buffer_size,
                      write_buffer_append_offset, write_buffer_send_offset,
                      read_closed, h2, pool, released, accepted_max, current_stream_id,
                      obs>>
       /\ IF ~found
          THEN /\ Did("queue", i, c, MHD_NO)
               /\ UNCHANGED <<streams, event_loop_info>>
          ELSE
            \E r \in {0, -1} :
              /\ streams' =
                   [streams EXCEPT ![id] =
                      [@ EXCEPT !.response = "RESPONSE",
                                !.response_code = status_code,
                                !.response_write_position =
                                   IF NoBodyShortcut(streams[id].method,
                                                     status_code)
                                   THEN response.total_size ELSE @]]
              /\ IF r # 0
                 THEN /\ Did("queue", [i EXCEPT !.rc = r],
                             c \o <<"MHD_increment_response_rc",
                                    "h2_session_build_stream_headers">>,
                             MHD_NO)
                      /\ UNCHANGED event_loop_info
                 ELSE /\ event_loop_info' = MHD_EVENT_LOOP_INFO_WRITE
                      /\ Did("queue", [i EXCEPT !.rc = r],
                             c \o <<"MHD_increment_response_rc",
                                    "h2_session_build_stream_headers",
                                    "MHD_connection_epoll_update_">>,
                             MHD_YES)

\* A stream as the session creates it: no response bound yet.
FreshStream(m) ==
  [method |-> m, response |-> NULL, response_code |-> 0,
   response_write_position |-> 0]

\* A connection with a session, some streams and a response to queue.
InitQueue ==
  /\ InitConn
  /\ read_buffer = <<>>
  /\ read_buffer_size = 0
  /\ read_buffer_offset = 0
  /\ \E D \in SUBSET StreamIds :
       streams \in [D -> {FreshStream(m) : m \in Methods}]
  /\ current_stream_id \in StreamIds
  /\ accepted_max = current_stream_id
  /\ response \in [total_size : 0..MaxTotalSize, reference_count : {1}]

NextQueue == h2_queue_response

SpecQueue == InitQueue /\ [][NextQueue]_vars

----------------------------------------------------------------------------
(* h2_is_h2_preface *)

\* memcmp over the first n bytes: zero, or the first difference.
Memcmp(a, b, n) ==
  IF \A i \in 1..n : a[i] = b[i]
  THEN 0
  ELSE LET k == CHOOSE i \in 1..n :
                  a[i] # b[i] /\ \A j \in 1..(i - 1) : a[j] = b[j]
       IN a[k] - b[k]

\* A bug: only the full token is accepted.
PrefaceResult_FullOnly(buf, offset) ==
  IF offset >= H2_MAGIC_TOKEN_LEN
  THEN IF Memcmp(H2_MAGIC_TOKEN, buf, H2_MAGIC_TOKEN_LEN) = 0
       THEN MHD_YES ELSE MHD_NO
  ELSE MHD_NO

\* The value h2_is_h2_preface returns for a buffer holding offset bytes.
PrefaceResult(buf, offset) ==
  IF offset >= H2_MAGIC_TOKEN_LEN
  THEN IF Memcmp(H2_MAGIC_TOKEN, buf, H2_MAGIC_TOKEN_LEN) = 0
       THEN MHD_YES ELSE MHD_NO
  ELSE IF offset >= H2_MAGIC_TOKEN_LEN_MIN
  THEN IF Memcmp(H2_MAGIC_TOKEN, buf, H2_MAGIC_TOKEN_LEN_MIN) = 0
       THEN MHD_YES ELSE MHD_NO
  ELSE MHD_NO

h2_is_h2_preface ==
  /\ Did("preface", NoInput, <<>>,
         PrefaceResult(read_buffer, read_buffer_offset))
  /\ UNCHANGED <<conn, sess, obs>>

\* The first n bytes a client may send: the token, then frame bytes.
ClientBytes(n) ==
  [i \in 1..n |-> IF i <= H2_MAGIC_TOKEN_LEN THEN H2_MAGIC_TOKEN[i] ELSE 0]

\* s with its k-th byte changed (k = 0: s itself).
Corrupt(s, k) == [i \in 1..Len(s) |-> IF i = k THEN s[i] + 1 ELSE s[i]]

\* A fresh connection whose first bytes have arrived, before negotiation.
InitPreface ==
  /\ InitCommon
  /\ h2 = NULL
  /\ event_loop_info = MHD_EVENT_LOOP_INFO_READ
  /\ write_buffer_size = 0
  /\ write_buffer = <<>>
  /\ \E n \in 0..MaxPrefaceLen, k \in 0..MaxPrefaceLen :
       /\ k <= n
       /\ read_buffer = Corrupt(ClientBytes(n), k)
       /\ read_buffer_offset = n
       /\ read_buffer_size = n
  /\ accepted_max = 0
  /\ current_stream_id = 0
  /\ streams = NoStreams
  /\ response = [total_size |-> 0, reference_count |-> 1]

\* The precondition asserted on entry to multiplexed mode.
EntryAssertion(tls) == MHD_TLS_CONN_CONNECTED = tls

\* Multiplexed mode is selected: the session is created and the preface is
\* to be sent.  A build with assertions aborts when the precondition fails;
\* a build without them goes on.
h2_set_h2_callbacks ==
  \E checked \in BOOLEAN, created \in {SESSION, NULL} :
    IF checked /\ ~EntryAssertion(tls_state)
    THEN /\ Did("set_h2_callbacks", NoInput, <<"abort">>, VOID)
         /\ UNCHANGED <<conn, sess, obs>>
    ELSE
      /\ event_loop_info' = MHD_EVENT_LOOP_INFO_WRITE
      /\ UNCHANGED <<suspended, tls_state, read_buffer_offset,
                     read_buffer_start_offset, write_buffer_append_offset,
                     write_buffer_send_offset, read_closed, sess, close_msg,
                     goaway_id, sent, encoded>>
      /\ IF created = NULL
         THEN /\ MHD_connection_close_(MHD_REQUEST_TERMINATED_WITH_ERROR)
              /\ Did("set_h2_callbacks", NoInput,
                     <<"h2_session_create", "MHD_connection_close_",
                       "MHD_connection_epoll_update_">>, VOID)
         ELSE /\ h2' = created
              /\ write_buffer_size' = WriteBufSize
              /\ write_buffer' = [i \in 1..WriteBufSize |-> 0]
              /\ Did("set_h2_callbacks", NoInput,
                     <<"h2_session_create",
                       "MHD_connection_epoll_update_">>, VOID)
              /\ UNCHANGED <<state, read_buffer, read_buffer_size, pool,
                             released, termination_code>>

\* The first bytes are examined while no mode is selected yet.
Examine ==
  /\ phase \in {"init", "preface"}
  /\ h2_is_h2_preface

\* The token matched: multiplexed mode is selected.
Select ==
  /\ phase = "preface"
  /\ ret = MHD_YES
  /\ h2_set_h2_callbacks

NextPreface == Examine \/ Select

SpecPreface == InitPreface /\ [][NextPreface]_vars

----------------------------------------------------------------------------
(* The claims about the phases *)

Open == state # MHD_CONNECTION_CLOSED

\* C1: while the connection is open, after any sequence of read, idle and
\* write phases, 0 <= start <= filled <= read capacity and
\* 0 <= send <= append <= write capacity.
C1_BufferInvariant ==
  Open =>
    /\ 0 <= read_buffer_start_offset
    /\ read_buffer_start_offset <= read_buffer_offset
    /\ read_buffer_offset <= read_buffer_size
    /\ 0 <= write_buffer_send_offset
    /\ write_buffer_send_offset <= write_buffer_append_offset
    /\ write_buffer_append_offset <= write_buffer_size

\* An open connection whose four cursors have all moved and none is drained.
C1_Witness ==
  /\ Open
  /\ 0 < read_buffer_start_offset
  /\ read_buffer_start_offset < read_buffer_offset
  /\ 0 < write_buffer_send_offset
  /\ write_buffer_send_offset < write_buffer_append_offset

\* C2: a read or write phase whose socket primitive returns the would-block
\* sentinel leaves the four offsets, the state, read_closed and the session
\* reference unchanged, closes nothing and does not call the encoder.
C2_WouldBlockTransparent ==
  [][ ( /\ phase' \in {"read", "write"}
        /\ (CalledIn(calls', "recv_cls") \/ CalledIn(calls', "send_cls"))
        /\ inp'.io = MHD_ERR_AGAIN_ )
      => /\ UNCHANGED <<read_buffer_start_offset, read_buffer_offset,
                        write_buffer_send_offset, write_buffer_append_offset,
                        state, read_closed, h2, termination_code>>
         /\ state' # MHD_CONNECTION_CLOSED
         /\ ~CalledIn(calls', "MHD_connection_close_")
         /\ ~CalledIn(calls', "connection_close_error")
         /\ ~CalledIn(calls', "h2_fill_write_buffer") ]_vars

\* A write phase that met would-block with part of the buffer already sent.
C2_Witness ==
  /\ phase = "write"
  /\ Called("send_cls")
  /\ inp.io = MHD_ERR_AGAIN_
  /\ write_buffer_send_offset > 0
  /\ write_buffer_append_offset > write_buffer_send_offset

\* C3: when the write phase returns without closing and the write buffer
\* still holds unflushed bytes, the readiness interest is "want write".
C3_UnflushedWantsWrite ==
  ( /\ phase = "write"
    /\ Open
    /\ write_buffer_append_offset - write_buffer_send_offset > 0 )
  => event_loop_info = MHD_EVENT_LOOP_INFO_WRITE

\* C4: a negative decoder result in the idle phase gives exactly one
\* shutdown-frame preparation naming accepted_max, one flush whose outcome
\* is ignored, closure with the error reason and failure; the read offsets
\* stay where they were.
C4_GracefulShutdown ==
  [][ (phase' = "idle" /\ inp'.rv < 0)
      => /\ calls' = <<"nghttp2_session_mem_recv", "nghttp2_submit_goaway",
                       "nghttp2_session_send", "MHD_connection_close_">>
         /\ goaway_id' = accepted_max'
         /\ state' = MHD_CONNECTION_CLOSED
         /\ termination_code' = MHD_REQUEST_TERMINATED_WITH_ERROR
         /\ ret' = MHD_NO
         /\ UNCHANGED <<read_buffer_start_offset, read_buffer_offset>> ]_vars

\* A decode failure after a stream was accepted, with unconsumed bytes left
\* and the flush of the shutdown frame failing.
C4_Witness ==
  /\ phase = "idle"
  /\ inp.rv < 0
  /\ inp.rc # 0
  /\ goaway_id > 0
  /\ read_buffer_offset > read_buffer_start_offset

\* C5: the write phase closes the connection as completed if and only if,
\* after flushing and encoding, the session wants neither input nor output
\* and the write buffer is fully flushed.
C5_CompletedIff ==
  [][ phase' = "write"
      => ( ( /\ Open
             /\ state' = MHD_CONNECTION_CLOSED
             /\ termination_code' = MHD_REQUEST_TERMINATED_COMPLETED_OK )
           <=>
           ( /\ CalledIn(calls', "h2_fill_write_buffer")
             /\ inp'.rc = 0
             /\ ~inp'.want_read
             /\ ~inp'.want_write
             /\ write_buffer_append_offset' = write_buffer_send_offset' ) )
    ]_vars

\* A connection closed as completed after bytes went out.
C5_Witness ==
  /\ phase = "write"
  /\ termination_code = MHD_REQUEST_TERMINATED_COMPLETED_OK
  /\ Len(sent) > 0

\* The bytes 1..n in order.
Iota(n) == [i \in 1..n |-> i]

\* C6: over any sequence of write phases the bytes the socket accepted are
\* exactly the bytes the session encoded, in order, none twice and none
\* skipped; a positive write of r bytes moves send by r (both cursors to
\* zero once drained), where the next write phase resumes.
C6_PartialWriteResumption ==
  /\ [](/\ sent = Iota(Len(sent))
        /\ Open =>
             sent \o SubSeq(write_buffer, write_buffer_send_offset + 1,
                            write_buffer_append_offset) = Iota(encoded))
  /\ [][ ( /\ phase' = "write"
           /\ CalledIn(calls', "send_cls")
           /\ inp'.io > 0 )
         => /\ sent' = sent \o SubSeq(write_buffer,
                                      write_buffer_send_offset + 1,
                                      write_buffer_send_offset + inp'.io)
            /\ \/ write_buffer_send_offset'
                    = write_buffer_send_offset + inp'.io
               \/ /\ write_buffer_send_offset + inp'.io
                       = write_buffer_append_offset
                  /\ write_buffer_send_offset' = 0 ]_vars

\* A partial write followed, in a later phase, by the rest: two bytes out,
\* one still pending.
C6_Witness ==
  /\ phase = "write"
  /\ Called("send_cls")
  /\ inp.io > 0
  /\ Len(sent) >= 2
  /\ write_buffer_send_offset > 0
  /\ write_buffer_append_offset > write_buffer_send_offset
  /\ Open

----------------------------------------------------------------------------
(* The claims about response queueing *)

\* The spellings of HEAD in any mix of cases.
IsHead(m) ==
  /\ m # NoMethod
  /\ Len(m[1]) = 4
  /\ m[1][1] \in {72, 104}
  /\ m[1][2] \in {69, 101}
  /\ m[1][3] \in {65, 97}
  /\ m[1][4] \in {68, 100}

\* C7: a successful bind sets write_position to total_size if the method is
\* HEAD in any case, or the status is below 200, 204 or 304, whatever the
\* total_size; otherwise write_position stays as it was.
C7_NoBodyShortcut ==
  [][ (phase' = "queue" /\ ret' = MHD_YES)
      => LET id == current_stream_id
             st == inp'.status
         IN streams'[id].response_write_position =
              IF \/ IsHead(streams[id].method)
                 \/ st < 200
                 \/ st = 204
                 \/ st = 304
              THEN response.total_size
              ELSE streams[id].response_write_position ]_vars

\* A 200 response of size 2 bound to a stream whose method is "head".
C7_Witness ==
  /\ phase = "queue"
  /\ ret = MHD_YES
  /\ inp.status = 200
  /\ response.total_size = 2
  /\ streams[current_stream_id].method = <<M_head>>
  /\ streams[current_stream_id].response_write_position = 2

\* C9: queueing when the current stream id has no Stream Record fails and
\* changes nothing: no reference taken, no stream modified, the readiness
\* interest unchanged, the connection not closed.
C9_NoStreamFails ==
  [][ (phase' = "queue" /\ current_stream_id \notin DOMAIN streams)
      => /\ ret' = MHD_NO
         /\ UNCHANGED <<response, streams, event_loop_info, state, h2,
                        termination_code>>
         /\ state' # MHD_CONNECTION_CLOSED ]_vars

\* A failed queueing for a missing stream while another stream exists.
C9_Witness ==
  /\ phase = "queue"
  /\ ret = MHD_NO
  /\ current_stream_id \notin DOMAIN streams
  /\ DOMAIN streams # {}

\* C10: when building the header block fails, the call fails, the
\* connection is closed with the generic error reason, the response is not
\* left bound to the stream and its reference count is not left incremented.
C10_BuildFailureLeavesNothing ==
  [][ ( /\ phase' = "queue"
        /\ CalledIn(calls', "h2_session_build_stream_headers")
        /\ inp'.rc # 0 )
      => /\ ret' = MHD_NO
         /\ state' = MHD_CONNECTION_CLOSED
         /\ termination_code' = MHD_REQUEST_TERMINATED_WITH_ERROR
         /\ streams'[current_stream_id].response
              = streams[current_stream_id].response
         /\ response'.reference_count = response.reference_count ]_vars

----------------------------------------------------------------------------
(* The claim about negotiation *)

\* The first n bytes of the buffer are those of the magic token.
Matches(n) ==
  /\ Len(read_buffer) >= n
  /\ \A i \in 1..n : read_buffer[i] = H2_MAGIC_TOKEN[i]

\* C8: multiplexed mode is reported for exactly 16 buffered bytes equal to
\* the token's first 16 and for 24 or more whose first 24 equal the token;
\* single-stream mode whenever one of the first 16 buffered bytes differs
\* and whenever fewer than 16 bytes are buffered.
C8_NegotiationBoundary ==
  phase = "preface" =>
    /\ (read_buffer_offset = 16 /\ Matches(16)) => ret = MHD_YES
    /\ (read_buffer_offset >= 24 /\ Matches(24)) => ret = MHD_YES
    /\ (\E i \in 1..Min(16, read_buffer_offset) :
          read_buffer[i] # H2_MAGIC_TOKEN[i]) => ret = MHD_NO
    /\ read_buffer_offset < 16 => ret = MHD_NO

\* Exactly 16 matching bytes buffered, and multiplexed mode reported.
C8_Witness ==
  /\ phase = "preface"
  /\ read_buffer_offset = 16
  /\ Matches(16)
  /\ ret = MHD_YES

----------------------------------------------------------------------------
(* Further claims about the phases and the teardown *)

\* C11: when the read buffer has less than one increment of free space and
\* growing it fails, the connection is closed with the generic error reason
\* and no socket read is attempted in that invocation.
C11_GrowFailureFatal ==
  [][ ( /\ phase' = "read"
        /\ CalledIn(calls', "try_grow_read_buffer")
        /\ inp'.grow = 0 )
      => /\ state' = MHD_CONNECTION_CLOSED
         /\ termination_code' = MHD_REQUEST_TERMINATED_WITH_ERROR
         /\ ~CalledIn(calls', "recv_cls") ]_vars

\* The calls that touch the socket or the session.
WorkCalls ==
  {"recv_cls", "send_cls", "nghttp2_session_mem_recv",
   "nghttp2_submit_goaway", "nghttp2_session_send", "h2_fill_write_buffer",
   "try_grow_read_buffer"}

\* C12: once the state is Closed, any further read, idle or write phase
\* leaves it Closed, does no socket read or write, feeds and encodes
\* nothing through the session and leaves the released buffers alone.
C12_ClosedTerminal ==
  [][ state = MHD_CONNECTION_CLOSED
      => /\ state' = MHD_CONNECTION_CLOSED
         /\ \A i \in 1..Len(calls') : calls'[i] \notin WorkCalls
         /\ UNCHANGED <<read_buffer, read_buffer_size, read_buffer_offset,
                        read_buffer_start_offset, write_buffer,
                        write_buffer_size, write_buffer_append_offset,
                        write_buffer_send_offset, h2, sent, encoded>> ]_vars

\* An idle phase on a connection that was closed with bytes still pending
\* in both directions.
C12_Witness ==
  /\ state = MHD_CONNECTION_CLOSED
  /\ phase = "idle"
  /\ Called("cleanup_connection")
  /\ write_buffer_append_offset > write_buffer_send_offset
  /\ read_buffer_offset > read_buffer_start_offset

\* C13: however often h2_connection_close is invoked, the session is
\* destroyed exactly once and the arena released exactly once; a close of a
\* connection that is already Closed changes no state.
C13_TeardownOnce ==
  /\ [](/\ released.session <= 1
        /\ released.pool <= 1
        /\ state = MHD_CONNECTION_CLOSED
             => released = [session |-> 1, pool |-> 1])
  /\ [][ (phase' = "close" /\ state = MHD_CONNECTION_CLOSED)
         => UNCHANGED <<conn, sess, obs>> ]_vars

\* A second teardown of a connection a phase had already closed.
C13_Witness ==
  /\ phase = "close"
  /\ termination_code # "NONE"
  /\ released = [session |-> 1, pool |-> 1]

\* C16: the buffer invariant also holds in the Closed state.
C16_ClosedBufferInvariant ==
  state = MHD_CONNECTION_CLOSED =>
    /\ read_buffer_start_offset <= read_buffer_offset
    /\ read_buffer_offset <= read_buffer_size
    /\ write_buffer_send_offset <= write_buffer_append_offset
    /\ write_buffer_append_offset <= write_buffer_size

\* C17: a read of 0 bytes sets read_closed and closes with the client-abort
\* reason; the reset sentinel and any other negative sentinel but
\* would-block close with the error reason, reset with a message of its
\* own; in these cases filled does not move.  A positive count moves filled
\* by that count and leaves read_closed false.
C17_ReadResults ==
  [][ (phase' = "read" /\ CalledIn(calls', "recv_cls"))
      => LET r == inp'.io
             closed == state' = MHD_CONNECTION_CLOSED
             error == termination_code' = MHD_REQUEST_TERMINATED_WITH_ERROR
         IN
         /\ r = 0 =>
              /\ read_closed'
              /\ closed
              /\ termination_code' = MHD_REQUEST_TERMINATED_CLIENT_ABORT
              /\ UNCHANGED read_buffer_offset
         /\ r = MHD_ERR_CONNRESET_ =>
              /\ closed
              /\ error
              /\ close_msg' = "unexpectedly disconnected"
              /\ UNCHANGED read_buffer_offset
         /\ (r < 0 /\ r \notin {MHD_ERR_AGAIN_, MHD_ERR_CONNRESET_}) =>
              /\ closed
              /\ error
              /\ close_msg' = "closed due to error"
              /\ UNCHANGED read_buffer_offset
         /\ r > 0 =>
              /\ read_buffer_offset' = read_buffer_offset + r
              /\ read_closed' = FALSE
              /\ ~closed ]_vars

\* A reset met by a read after bytes had been buffered.
C17_Witness ==
  /\ phase = "read"
  /\ Called("recv_cls")
  /\ inp.io = MHD_ERR_CONNRESET_
  /\ close_msg = "unexpectedly disconnected"
  /\ read_buffer_offset > 0

\* C14: while the scheduler keeps running the phases by the reported
\* interest, the socket takes pending bytes and the session runs dry, the
\* connection ends Closed with the completed-successfully reason, and it
\* never stays open for ever with unflushed output and no write interest.
C14_Completion ==
  /\ <>(/\ state = MHD_CONNECTION_CLOSED
        /\ termination_code = MHD_REQUEST_TERMINATED_COMPLETED_OK)
  /\ ~<>[](/\ Open
           /\ Pending(write_buffer_append_offset, write_buffer_send_offset) > 0
           /\ event_loop_info # MHD_EVENT_LOOP_INFO_WRITE)

\* A connection that finished after the socket took all the session encoded.
C14_Witness ==
  /\ state = MHD_CONNECTION_CLOSED
  /\ termination_code = MHD_REQUEST_TERMINATED_COMPLETED_OK
  /\ encoded = MaxEncoded
  /\ Len(sent) = MaxEncoded

\* C15: an idle phase with zero available bytes is a no-op: it returns
\* success and changes neither the offsets, the lifecycle state, the
\* readiness interest nor the last-activity timestamp.
C15_IdleNoOp ==
  [][ ( /\ Open
        /\ h2 # NULL
        /\ Available(read_buffer_offset, read_buffer_start_offset) = 0
        /\ phase' = "idle"
        /\ inp'.rv >= 0 )
      => /\ ret' = MHD_YES
         /\ UNCHANGED <<state, read_buffer_offset, read_buffer_start_offset,
                        write_buffer_append_offset, write_buffer_send_offset,
                        event_loop_info>>
         /\ ~CalledIn(calls', "MHD_update_last_activity_") ]_vars

\* C18: when the session cannot be created while multiplexed mode is
\* selected, the connection is closed with the generic error reason, ends
\* Closed with no session, and the call neither updates the readiness
\* interest nor notifies the scheduler.
C18_CreateFailureStops ==
  [][ ( /\ phase' = "set_h2_callbacks"
        /\ CalledIn(calls', "MHD_connection_close_") )
      => /\ state' = MHD_CONNECTION_CLOSED
         /\ termination_code' = MHD_REQUEST_TERMINATED_WITH_ERROR
         /\ h2' = NULL
         /\ UNCHANGED event_loop_info
         /\ ~CalledIn(calls', "MHD_connection_epoll_update_") ]_vars

\* C19: on every connection on which negotiation selects multiplexed mode,
\* an unencrypted one whose first bytes match the token included, the
\* assertion on entry to h2_set_h2_callbacks holds.
C19_EntryAssertionHolds ==
  [][ phase' = "set_h2_callbacks" => EntryAssertion(tls_state) ]_vars

\* C20: h2_queue_response for a stream that already has a response bound
\* returns failure, takes no further reference and overwrites nothing.
C20_BoundOnce ==
  [][ ( /\ phase' = "queue"
        /\ StreamFound(current_stream_id)
        /\ streams[current_stream_id].response # NULL )
      => /\ ret' = MHD_NO
         /\ UNCHANGED <<response, streams>> ]_vars

\* Where the statement f stands in the trace cs.
Position(cs, f) == CHOOSE i \in 1..Len(cs) : cs[i] = f

\* C21: h2_connection_close destroys the session and clears the session
\* reference before it releases the arena, and on return the state is
\* Closed, the session reference and the arena are null and both buffers
\* are null with size zero.
C21_CloseOrdering ==
  [][ phase' = "close"
      => /\ CalledIn(calls', "h2_session_destroy")
         /\ CalledIn(calls', "h2 = NULL")
         /\ CalledIn(calls', "MHD_pool_destroy")
         /\ Position(calls', "h2_session_destroy")
              < Position(calls', "h2 = NULL")
         /\ Position(calls', "h2 = NULL")
              < Position(calls', "MHD_pool_destroy")
         /\ state' = MHD_CONNECTION_CLOSED
         /\ h2' = NULL
         /\ pool' = NULL
         /\ read_buffer' = <<>>
         /\ read_buffer_size' = 0
         /\ write_buffer' = <<>>
         /\ write_buffer_size' = 0 ]_vars

\* The owner tore down an open connection whose session had encoded output
\* that was still unflushed.
C21_Witness ==
  /\ phase = "close"
  /\ termination_code = "NONE"
  /\ released = [session |-> 1, pool |-> 1]
  /\ write_buffer_append_offset > write_buffer_send_offset

====
